---- MODULE Spec2Model ----
(***************************************************************************)
(* Model of static/js/search_form.js: the advanced-search form whose       *)
(* include rows (div.query_chunk) and exclude rows (div.not_chunk) are     *)
(* compiled by build_query into the hidden field #id_q.                    *)
(*                                                                         *)
(* A row is the div with its three children (select, input, remove link):  *)
(*   index     the number in the div id (query_chunk_N / not_chunk_N)      *)
(*   field     the value of the select                                     *)
(*   keyword   the value of the input                                      *)
(*   removable whether the div carries the class 'removable'               *)
(*   change    whether build_query is bound to the input and the select    *)
(*   remove    the number in the id of the remove link (remove_N /         *)
(*             not_remove_N)                                               *)
(*   click     whether the remove handler is bound to the remove link      *)
(***************************************************************************)
EXTENDS Integers, Sequences, FiniteSets, TLC

\* ---- bound of the model: the add links are followed as long as the     ----
\* ---- highest row numbers of the two collections add up to less than it ----
MaxIndex == 2

\* ---- values the controls can take ----
Fields == {"title", "author"}
Keywords == {"", "x"}
Operators == {"AND", "OR"}
\* the option the markup of the field selector marks as selected
DefaultField == "title"

VARIABLES query_chunks, not_chunks, id_operator, id_q, threw

vars == <<query_chunks, not_chunks, id_operator, id_q, threw>>

\* ---- jQuery.substitute and the two patterns ----
Brace(name) == [brace |-> TRUE, text |-> name]
Lit(s) == [brace |-> FALSE, text |-> s]

\* variant: the pattern with the keyword in parentheses
part_pattern_parens == <<Brace("param"), Lit(":("), Brace("keyword"), Lit(")")>>

part_pattern == <<Brace("param"), Lit(":"), Brace("keyword")>>
not_pattern == <<Lit("-"), Brace("param"), Lit(":"), Brace("keyword")>>

RECURSIVE substitute(_, _)
substitute(str, sub) ==
    IF str = <<>> THEN ""
    ELSE LET seg == Head(str)
             out == IF seg.brace
                    THEN IF seg.text \in DOMAIN sub THEN sub[seg.text]
                         ELSE "{" \o seg.text \o "}"
                    ELSE seg.text
         IN  out \o substitute(Tail(str), sub)

\* Array.prototype.join
RECURSIVE join(_, _)
join(arr, sep) ==
    IF arr = <<>> THEN ""
    ELSE IF Len(arr) = 1 THEN arr[1]
    ELSE arr[1] \o sep \o join(Tail(arr), sep)

\* variant: the test of the keyword left out
push_operand_all(operands, row, pattern) ==
    Append(operands, substitute(pattern, [param |-> row.field, keyword |-> row.keyword]))

\* the body of the two .each loops: push a token for a row with a keyword
push_operand(operands, row, pattern) ==
    IF row.keyword # ""
    THEN Append(operands, substitute(pattern, [param |-> row.field, keyword |-> row.keyword]))
    ELSE operands

RECURSIVE each_chunk(_, _, _)
each_chunk(chunks, pattern, operands) ==
    IF chunks = <<>> THEN operands
    ELSE each_chunk(Tail(chunks), pattern, push_operand(operands, Head(chunks), pattern))

\* variant: the not operands joined like the operands
not_join_operator(not_operands, op_value) == join(not_operands, " " \o op_value \o " ")

\* the joiner of the not operands
not_join(not_operands, op_value) == join(not_operands, " ")

\* variant: the not part appended without the two tests
query_string_untested(qc, nc, op_value) ==
    join(each_chunk(qc, part_pattern, <<>>), " " \o op_value \o " ")
        \o " " \o not_join(each_chunk(nc, not_pattern, <<>>), op_value)

\* variant: query_string started from the content of #id_q instead of ""
query_string_appended(qc, nc, op_value) ==
    LET operands == each_chunk(qc, part_pattern, <<>>)
        s1 == id_q \o join(operands, " " \o op_value \o " ")
        not_operands == each_chunk(nc, not_pattern, <<>>)
    IN  IF Len(not_operands) > 0
        THEN (IF s1 # "" THEN s1 \o " " ELSE s1) \o not_join(not_operands, op_value)
        ELSE s1

\* the string build_query writes to #id_q
query_string(qc, nc, op_value) ==
    LET operands == each_chunk(qc, part_pattern, <<>>)
        s1 == "" \o join(operands, " " \o op_value \o " ")
        not_operands == each_chunk(nc, not_pattern, <<>>)
    IN  IF Len(not_operands) > 0
        THEN (IF s1 # "" THEN s1 \o " " ELSE s1) \o not_join(not_operands, op_value)
        ELSE s1

build_query(qc, nc, op_value) == query_string(qc, nc, op_value)

\* variant: only the id of the div incremented, not those of its children
increment_ids_div_only(el) == [el EXCEPT !.index = el.index + 1]

\* ---- increment_ids: the new last row gets the cloned numbers plus one ----
increment_ids(el) == [el EXCEPT !.index = el.index + 1, !.remove = el.remove + 1]

\* variant: a clone without the handlers (clone() for clone(true))
clone_without_events(el, withDataAndEvents) ==
    [index |-> el.index, field |-> DefaultField, keyword |-> el.keyword,
     removable |-> el.removable, change |-> FALSE,
     remove |-> el.remove, click |-> FALSE]

\* ---- jQuery clone(withDataAndEvents): attributes (ids, class) and the     ----
\* ---- input's value are copied, the bound handlers only on request, and ----
\* ---- the selection of a select is not: the copy shows the default      ----
clone(el, withDataAndEvents) ==
    [index |-> el.index, field |-> DefaultField, keyword |-> el.keyword,
     removable |-> el.removable,
     change |-> el.change /\ withDataAndEvents,
     remove |-> el.remove,
     click |-> el.click /\ withDataAndEvents]

\* $(':first').addClass('removable') / removeClass('removable')
addClass_first(chunks) ==
    IF chunks = <<>> THEN chunks ELSE [chunks EXCEPT ![1].removable = TRUE]

removeClass_first(chunks) ==
    IF chunks = <<>> THEN chunks ELSE [chunks EXCEPT ![1].removable = FALSE]

\* variant: the rows from remove_index on removed
remove_div_from(chunks, remove_index) ==
    SelectSeq(chunks, LAMBDA r : r.index < remove_index)

\* $('div#..._chunk_' + remove_index).remove()
remove_div(chunks, remove_index) ==
    SelectSeq(chunks, LAMBDA r : r.index # remove_index)

\* variant: the class left on the remaining row
remove_click_keep_class(chunks, remove_index) == remove_div(chunks, remove_index)

\* the rows after a click on a remove link whose id carries remove_index
remove_click(chunks, remove_index) ==
    LET rest == remove_div(chunks, remove_index)
    IN  IF Len(rest) = 1 THEN removeClass_first(rest) ELSE rest

\* the rows after a click on an add link (the collection is not empty)
add_click(chunks) ==
    LET marked == addClass_first(chunks)
        cloned == [clone(marked[Len(marked)], TRUE) EXCEPT !.keyword = ""]
        inserted == Append(marked, cloned)
    IN  [inserted EXCEPT ![Len(inserted)] = increment_ids(inserted[Len(inserted)])]

\* the number increment_ids reads from the id of the last row
last_index(chunks) == IF chunks = <<>> THEN 0 ELSE chunks[Len(chunks)].index

\* ---- the page as loaded and init() ----
InitialRow ==
    [index |-> 0, field |-> DefaultField, keyword |-> "", removable |-> FALSE,
     change |-> TRUE, remove |-> 0, click |-> TRUE]

Init ==
    /\ query_chunks = <<InitialRow>>
    /\ not_chunks = <<InitialRow>>
    /\ id_operator = "AND"
    /\ id_q = ""
    /\ threw = FALSE

\* ---- events ----
\* the value of #id_q after an event on a control of row r
after_change(r, qc, nc) ==
    IF r.change THEN build_query(qc, nc, id_operator) ELSE id_q

\* a key released in the input of include row i, leaving k in it (change keyup)
QueryKeyup ==
    \E i \in DOMAIN query_chunks, k \in Keywords :
        /\ LET qc == [query_chunks EXCEPT ![i].keyword = k]
           IN  /\ query_chunks' = qc
               /\ id_q' = after_change(qc[i], qc, not_chunks)
        /\ threw' = FALSE
        /\ UNCHANGED <<not_chunks, id_operator>>

\* choosing a field in the select of include row i (change)
QueryFieldChange ==
    \E i \in DOMAIN query_chunks, f \in Fields :
        /\ f # query_chunks[i].field
        /\ LET qc == [query_chunks EXCEPT ![i].field = f]
           IN  /\ query_chunks' = qc
               /\ id_q' = after_change(qc[i], qc, not_chunks)
        /\ threw' = FALSE
        /\ UNCHANGED <<not_chunks, id_operator>>

\* a key released in the input of exclude row i, leaving k in it (change keyup)
NotKeyup ==
    \E i \in DOMAIN not_chunks, k \in Keywords :
        /\ LET nc == [not_chunks EXCEPT ![i].keyword = k]
           IN  /\ not_chunks' = nc
               /\ id_q' = after_change(nc[i], query_chunks, nc)
        /\ threw' = FALSE
        /\ UNCHANGED <<query_chunks, id_operator>>

\* choosing a field in the select of exclude row i (change)
NotFieldChange ==
    \E i \in DOMAIN not_chunks, f \in Fields :
        /\ f # not_chunks[i].field
        /\ LET nc == [not_chunks EXCEPT ![i].field = f]
           IN  /\ not_chunks' = nc
               /\ id_q' = after_change(nc[i], query_chunks, nc)
        /\ threw' = FALSE
        /\ UNCHANGED <<query_chunks, id_operator>>

\* choosing a combinator in #id_operator: init() binds nothing to it
OperatorChange ==
    \E o \in Operators :
        /\ o # id_operator
        /\ id_operator' = o
        /\ threw' = FALSE
        /\ UNCHANGED <<query_chunks, not_chunks, id_q>>

\* variant: the include remove handler without its call of build_query
RemoveBtn_without_build ==
    \E i \in DOMAIN query_chunks :
        /\ query_chunks[i].click
        /\ query_chunks' = remove_click(query_chunks, query_chunks[i].remove)
        /\ threw' = FALSE
        /\ UNCHANGED <<not_chunks, id_operator, id_q>>

\* click on the remove link of include row i
RemoveBtn ==
    \E i \in DOMAIN query_chunks :
        /\ query_chunks[i].click
        /\ LET qc == remove_click(query_chunks, query_chunks[i].remove)
           IN  /\ query_chunks' = qc
               /\ id_q' = build_query(qc, not_chunks, id_operator)
        /\ threw' = FALSE
        /\ UNCHANGED <<not_chunks, id_operator>>

\* variant: the exclude remove handler ending in build_query()
NotRemoveBtn_with_build ==
    \E i \in DOMAIN not_chunks :
        /\ not_chunks[i].click
        /\ LET nc == remove_click(not_chunks, not_chunks[i].remove)
           IN  /\ not_chunks' = nc
               /\ id_q' = build_query(query_chunks, nc, id_operator)
        /\ threw' = FALSE
        /\ UNCHANGED <<query_chunks, id_operator>>

\* click on the remove link of exclude row i
NotRemoveBtn ==
    \E i \in DOMAIN not_chunks :
        /\ not_chunks[i].click
        /\ not_chunks' = remove_click(not_chunks, not_chunks[i].remove)
        /\ threw' = FALSE
        /\ UNCHANGED <<query_chunks, id_operator, id_q>>

\* click on #add_query_part; with no row left, increment_ids reads the id
\* of an empty selection and the handler ends in a TypeError
AddQueryPart ==
    /\ query_chunks # <<>> => last_index(query_chunks) + last_index(not_chunks) < MaxIndex
    /\ IF query_chunks = <<>>
       THEN /\ threw' = TRUE
            /\ UNCHANGED query_chunks
       ELSE /\ threw' = FALSE
            /\ query_chunks' = add_click(query_chunks)
    /\ UNCHANGED <<not_chunks, id_operator, id_q>>

\* click on #add_not_part
AddNotPart ==
    /\ not_chunks # <<>> => last_index(query_chunks) + last_index(not_chunks) < MaxIndex
    /\ IF not_chunks = <<>>
       THEN /\ threw' = TRUE
            /\ UNCHANGED not_chunks
       ELSE /\ threw' = FALSE
            /\ not_chunks' = add_click(not_chunks)
    /\ UNCHANGED <<query_chunks, id_operator, id_q>>

Next ==
    \/ QueryKeyup
    \/ QueryFieldChange
    \/ NotKeyup
    \/ NotFieldChange
    \/ OperatorChange
    \/ RemoveBtn
    \/ NotRemoveBtn
    \/ AddQueryPart
    \/ AddNotPart

Spec == Init /\ [][Next]_vars

\* ======================= properties =======================

\* the numbers in the div ids of a collection, in display order
Indices(chunks) == [i \in DOMAIN chunks |-> chunks[i].index]

\* C1: as long as no collection was ever emptied (an emptied collection stays
\* empty, so both are non-empty now), the numbers in the row ids of each
\* collection are exactly 0..length-1 in display order.
C1_Density ==
    (query_chunks # <<>> /\ not_chunks # <<>>) =>
        /\ Indices(query_chunks) = [i \in DOMAIN query_chunks |-> i - 1]
        /\ Indices(not_chunks) = [i \in DOMAIN not_chunks |-> i - 1]

\* C2: both collections hold at least one row at all times, and a remove
\* click on a collection of exactly one row changes nothing.
C2_MinimumSize ==
    /\ [](Len(query_chunks) >= 1 /\ Len(not_chunks) >= 1)
    /\ [][/\ (Len(query_chunks) = 1 /\ RemoveBtn) => UNCHANGED <<query_chunks, not_chunks, id_operator, id_q>>
          /\ (Len(not_chunks) = 1 /\ NotRemoveBtn) => UNCHANGED <<query_chunks, not_chunks, id_operator, id_q>>
          /\ Len(query_chunks') >= 1 /\ Len(not_chunks') >= 1]_vars

\* C3: after every event (keyword edit, field change, combinator change, add
\* row, remove row, in either collection) #id_q is the compilation of the
\* current rows and the current combinator. Stated for the runs that never
\* remove the only row of a collection (an emptied collection stays empty).
C3_NoStaleQuery ==
    (query_chunks # <<>> /\ not_chunks # <<>>) =>
        id_q = build_query(query_chunks, not_chunks, id_operator)

\* the rows of a collection that have a keyword
Filled(chunks) == SelectSeq(chunks, LAMBDA r : r.keyword # "")

\* C4: build_query writes the tokens "<field>:<keyword>" of the include rows
\* with a keyword, in display order, separated by " <combinator> ", then,
\* when an exclude row has a keyword, a single space (only after a non-empty
\* include part) and the tokens "-<field>:<keyword>" of those exclude rows,
\* in display order, separated by single spaces.
C4_CompiledQuery ==
    LET RECURSIVE Separated(_, _, _)
        Separated(rows, lead, sep) ==
            IF rows = <<>> THEN ""
            ELSE LET n == Len(rows)
                     token == lead \o rows[n].field \o ":" \o rows[n].keyword
                 IN  IF n = 1 THEN token
                     ELSE Separated(SubSeq(rows, 1, n - 1), lead, sep) \o sep \o token
        includePart == Separated(Filled(query_chunks), "", " " \o id_operator \o " ")
        excludePart == Separated(Filled(not_chunks), "-", " ")
        expected == IF excludePart = "" THEN includePart
                    ELSE IF includePart = "" THEN excludePart
                    ELSE includePart \o " " \o excludePart
    IN  build_query(query_chunks, not_chunks, id_operator) = expected

\* C4 witness: build_query has written a query with two include tokens and
\* two exclude tokens.
C4_Witness ==
    /\ Len(Filled(query_chunks)) >= 2
    /\ Len(Filled(not_chunks)) >= 2
    /\ id_q = build_query(query_chunks, not_chunks, id_operator)

\* C5: for any two values of the combinator, the compiled queries of the
\* current rows end in the same exclude part, whose tokens are separated by
\* single spaces, and differ at most in the include part before it (not at
\* all when fewer than two include rows have a keyword).
C5_ExcludeJoinIndependent ==
    \A o1 \in Operators, o2 \in Operators :
        LET glue(a, b) == IF b = "" THEN a ELSE IF a = "" THEN b ELSE a \o " " \o b
            RECURSIVE spaced(_)
            spaced(tokens) ==
                IF tokens = <<>> THEN ""
                ELSE IF Len(tokens) = 1 THEN tokens[1]
                ELSE tokens[1] \o " " \o spaced(Tail(tokens))
            e1 == build_query(<<>>, not_chunks, o1)
            e2 == build_query(<<>>, not_chunks, o2)
            i1 == build_query(query_chunks, <<>>, o1)
            i2 == build_query(query_chunks, <<>>, o2)
            lone == [i \in DOMAIN Filled(not_chunks) |->
                        build_query(<<>>, <<Filled(not_chunks)[i]>>, o1)]
        IN  /\ e1 = e2
            /\ build_query(query_chunks, not_chunks, o1) = glue(i1, e1)
            /\ build_query(query_chunks, not_chunks, o2) = glue(i2, e1)
            /\ e1 = spaced(lone)
            /\ Len(Filled(query_chunks)) <= 1 => i1 = i2
            /\ (Len(Filled(query_chunks)) >= 2 /\ o1 # o2) => i1 # i2

\* C5 witness: two include tokens and two exclude tokens compiled under OR.
C5_Witness ==
    /\ id_operator = "OR"
    /\ Len(Filled(query_chunks)) >= 2
    /\ Len(Filled(not_chunks)) >= 2
    /\ id_q = build_query(query_chunks, not_chunks, id_operator)
    /\ id_q # build_query(query_chunks, not_chunks, "AND")

\* C6: a row with an empty keyword contributes nothing whatever its field:
\* build_query gives the same string with that row deleted, in the include
\* and in the exclude collection, and with its field changed.
C6_EmptyKeywordFiltered ==
    LET without(chunks, i) == SubSeq(chunks, 1, i - 1) \o SubSeq(chunks, i + 1, Len(chunks))
        q == build_query(query_chunks, not_chunks, id_operator)
    IN  /\ \A i \in DOMAIN query_chunks :
               query_chunks[i].keyword = "" =>
                   /\ build_query(without(query_chunks, i), not_chunks, id_operator) = q
                   /\ \A f \in Fields :
                          build_query([query_chunks EXCEPT ![i].field = f], not_chunks, id_operator) = q
        /\ \A i \in DOMAIN not_chunks :
               not_chunks[i].keyword = "" =>
                   /\ build_query(query_chunks, without(not_chunks, i), id_operator) = q
                   /\ \A f \in Fields :
                          build_query(query_chunks, [not_chunks EXCEPT ![i].field = f], id_operator) = q

\* C6 witness: each collection has a row with an empty keyword and a field
\* other than the default beside a row with a keyword, and build_query has
\* written the query.
C6_Witness ==
    /\ \E i \in DOMAIN query_chunks, j \in DOMAIN query_chunks :
           /\ query_chunks[i].keyword = "" /\ query_chunks[i].field # DefaultField
           /\ query_chunks[j].keyword # ""
    /\ \E i \in DOMAIN not_chunks, j \in DOMAIN not_chunks :
           /\ not_chunks[i].keyword = "" /\ not_chunks[i].field # DefaultField
           /\ not_chunks[j].keyword # ""
    /\ id_q = build_query(query_chunks, not_chunks, id_operator)

\* C7: build_query yields a string in every reachable state (also with a
\* collection emptied), no handler that calls it ends in an exception, and
\* the string is empty whenever no row of either collection has a keyword.
C7_Totality ==
    /\ [](/\ build_query(query_chunks, not_chunks, id_operator) \in STRING
          /\ (Filled(query_chunks) = <<>> /\ Filled(not_chunks) = <<>>) =>
                 build_query(query_chunks, not_chunks, id_operator) = "")
    /\ [][(QueryKeyup \/ QueryFieldChange \/ NotKeyup \/ NotFieldChange \/ RemoveBtn)
             => ~threw']_vars

\* C7 witness: rows without keywords, one of them with a field chosen by the
\* user (whose change handler ran build_query), and an empty #id_q.
C7_Witness ==
    /\ Len(query_chunks) >= 2 /\ Len(not_chunks) >= 1
    /\ Filled(query_chunks) = <<>> /\ Filled(not_chunks) = <<>>
    /\ \E i \in DOMAIN query_chunks : query_chunks[i].field # DefaultField
    /\ \E i \in DOMAIN not_chunks : not_chunks[i].field # DefaultField
    /\ id_q = ""

\* C8: an add click appends one row at the end of its collection, with an
\* empty keyword and the field selected in the row that was last before.
C8_AppendCopiesField ==
    [][/\ (AddQueryPart /\ query_chunks # <<>>) =>
              /\ Len(query_chunks') = Len(query_chunks) + 1
              /\ SubSeq(query_chunks', 1, Len(query_chunks)) = addClass_first(query_chunks)
              /\ query_chunks'[Len(query_chunks')].keyword = ""
              /\ query_chunks'[Len(query_chunks')].field = query_chunks[Len(query_chunks)].field
       /\ (AddNotPart /\ not_chunks # <<>>) =>
              /\ Len(not_chunks') = Len(not_chunks) + 1
              /\ SubSeq(not_chunks', 1, Len(not_chunks)) = addClass_first(not_chunks)
              /\ not_chunks'[Len(not_chunks')].keyword = ""
              /\ not_chunks'[Len(not_chunks')].field = not_chunks[Len(not_chunks)].field]_vars

\* C9: a collection of exactly one row has that row without the class
\* 'removable'; in a collection of two or more rows every row has it.
C9_RemovableTracksSize ==
    \A chunks \in {query_chunks, not_chunks} :
        /\ Len(chunks) = 1 => ~chunks[1].removable
        /\ Len(chunks) >= 2 => \A i \in DOMAIN chunks : chunks[i].removable

\* C9 witness: the include collection grew to two rows; the exclude
\* collection grew and shrank back to one row, the one that was added.
C9_Witness ==
    /\ Len(query_chunks) = 2
    /\ \A i \in DOMAIN query_chunks : query_chunks[i].removable
    /\ Len(not_chunks) = 1
    /\ not_chunks[1].index >= 1
    /\ ~not_chunks[1].removable

\* C10: every keyword edit and every field change, on any row of either
\* collection, leaves #id_q equal to the compilation of the rows and the
\* combinator as they are after it.
C10_EditsCompile ==
    [][(QueryKeyup \/ QueryFieldChange \/ NotKeyup \/ NotFieldChange) =>
           id_q' = build_query(query_chunks', not_chunks', id_operator')]_vars

\* C10 witness: rows created by add clicks carry a keyword and a field
\* chosen by the user, and #id_q shows them.
C10_Witness ==
    /\ \E i \in DOMAIN query_chunks :
           /\ query_chunks[i].index >= 1
           /\ query_chunks[i].keyword # "" /\ query_chunks[i].field # DefaultField
    /\ \E i \in DOMAIN not_chunks :
           /\ not_chunks[i].index >= 1
           /\ not_chunks[i].keyword # "" /\ not_chunks[i].field # DefaultField
    /\ id_q = build_query(query_chunks, not_chunks, id_operator)

\* what a row shows: its number, field and keyword
Shown(chunks) ==
    [i \in DOMAIN chunks |->
        [index |-> chunks[i].index, field |-> chunks[i].field, keyword |-> chunks[i].keyword]]

\* a sequence without its i-th element
Without(seq, i) == SubSeq(seq, 1, i - 1) \o SubSeq(seq, i + 1, Len(seq))

\* C11: right after a remove click on an include row, the remaining include
\* rows are the former ones in their former order and #id_q is the
\* compilation of them and of the current exclude rows; a remaining single
\* row with a keyword gives "<field>:<keyword>" when no exclude row has one.
C11_RemoveRecompiles ==
    [][RemoveBtn =>
          /\ \E i \in DOMAIN query_chunks : Shown(query_chunks') = Without(Shown(query_chunks), i)
          /\ not_chunks' = not_chunks
          /\ id_q' = build_query(query_chunks', not_chunks', id_operator')
          /\ (Len(query_chunks') = 1 /\ query_chunks'[1].keyword # "" /\ Filled(not_chunks') = <<>>)
                 => id_q' = query_chunks'[1].field \o ":" \o query_chunks'[1].keyword]_vars

\* C11 witness: the first include row was removed and the row that was
\* added after it, with its keyword, is what #id_q shows.
C11_Witness ==
    /\ Len(query_chunks) = 1
    /\ query_chunks[1].index >= 1
    /\ query_chunks[1].keyword = "x"
    /\ Filled(not_chunks) = <<>>
    /\ not_chunks # <<>>
    /\ id_q = query_chunks[1].field \o ":x"

\* C12: right after the combinator is changed while at least two include
\* rows have a keyword, #id_q has the new combinator between the include
\* tokens (it is the compilation of the rows under the new combinator).
C12_OperatorRecompiles ==
    [][(OperatorChange /\ Len(Filled(query_chunks)) >= 2) =>
           id_q' = build_query(query_chunks', not_chunks', id_operator')]_vars

\* C13: a remove click on an exclude row leaves #id_q exactly as it was,
\* also when the removed row had a keyword.
C13_NotRemoveKeepsQuery ==
    [][NotRemoveBtn => id_q' = id_q]_vars

\* C13 witness: an exclude row with a keyword was removed (the remaining
\* exclude row is a later one, no row has a keyword) and #id_q still shows
\* the removed row's token.
C13_Witness ==
    /\ Len(not_chunks) = 1
    /\ not_chunks[1].index >= 1
    /\ Filled(not_chunks) = <<>>
    /\ Filled(query_chunks) = <<>>
    /\ query_chunks # <<>>
    /\ id_q = "-title:x"

\* C14: the row created by an add click gets as its number the number of
\* rows its collection had before the click, so the numbers are 0..n after.
C14_AddedIndexIsCount ==
    [][/\ (AddQueryPart /\ query_chunks # <<>>) =>
              /\ query_chunks'[Len(query_chunks')].index = Len(query_chunks)
              /\ Indices(query_chunks') = [i \in DOMAIN query_chunks' |-> i - 1]
       /\ (AddNotPart /\ not_chunks # <<>>) =>
              /\ not_chunks'[Len(not_chunks')].index = Len(not_chunks)
              /\ Indices(not_chunks') = [i \in DOMAIN not_chunks' |-> i - 1]]_vars

\* C15: the numbers of the rows of one collection are strictly increasing in
\* display order (hence pairwise distinct), every remove link carries the
\* number of its own row, and a click on the remove link of a row removes
\* that row and no other.
C15_NoDuplicateIndices ==
    /\ [](\A chunks \in {query_chunks, not_chunks} :
              /\ \A i \in DOMAIN chunks, j \in DOMAIN chunks :
                     i < j => chunks[i].index < chunks[j].index
              /\ \A i \in DOMAIN chunks : chunks[i].remove = chunks[i].index)
    /\ [][/\ \A i \in DOMAIN query_chunks :
                 (/\ query_chunks[i].click
                  /\ query_chunks' = remove_click(query_chunks, query_chunks[i].remove))
                     => Shown(query_chunks') = Without(Shown(query_chunks), i)
          /\ \A i \in DOMAIN not_chunks :
                 (/\ not_chunks[i].click
                  /\ not_chunks' = remove_click(not_chunks, not_chunks[i].remove))
                     => Shown(not_chunks') = Without(Shown(not_chunks), i)]_vars

\* C15 witness: after two add clicks and a click on the remove link of the
\* middle row, the include rows are numbered 0 and 2.
C15_Witness ==
    /\ Indices(query_chunks) = <<0, 2>>
    /\ Len(not_chunks) >= 1
    /\ threw = FALSE

\* the fields and keywords of the rows of a collection, in display order
FieldsKeywords(chunks) ==
    [i \in DOMAIN chunks |-> [field |-> chunks[i].field, keyword |-> chunks[i].keyword]]

\* C16: an add or remove click on one collection leaves the other collection
\* as it was, and leaves the field, the keyword and the order of the rows of
\* its own collection other than the added or removed one as they were.
C16_Frame ==
        [][/\ RemoveBtn =>
                  /\ not_chunks' = not_chunks
                  /\ \E i \in DOMAIN query_chunks : FieldsKeywords(query_chunks') = Without(FieldsKeywords(query_chunks), i)
           /\ NotRemoveBtn =>
                  /\ query_chunks' = query_chunks
                  /\ \E i \in DOMAIN not_chunks : FieldsKeywords(not_chunks') = Without(FieldsKeywords(not_chunks), i)
           /\ AddQueryPart =>
                  /\ not_chunks' = not_chunks
                  /\ Len(query_chunks') >= Len(query_chunks)
                  /\ SubSeq(FieldsKeywords(query_chunks'), 1, Len(query_chunks)) = FieldsKeywords(query_chunks)
           /\ AddNotPart =>
                  /\ query_chunks' = query_chunks
                  /\ Len(not_chunks') >= Len(not_chunks)
                  /\ SubSeq(FieldsKeywords(not_chunks'), 1, Len(not_chunks)) = FieldsKeywords(not_chunks)]_vars

\* C16 witness: include rows with fields and keywords set by the user stand
\* on both sides of a removed row, beside an exclude row set by the user.
C16_Witness ==
    /\ Indices(query_chunks) = <<0, 2>>
    /\ query_chunks[1].field = "author" /\ query_chunks[1].keyword = "x"
    /\ query_chunks[2].keyword = "x"
    /\ not_chunks # <<>>
    /\ not_chunks[1].field = "author" /\ not_chunks[1].keyword = "x"

\* C17: an add click makes its collection one row longer, in every state.
C17_AppendSucceeds ==
    [][/\ AddQueryPart => Len(query_chunks') = Len(query_chunks) + 1
       /\ AddNotPart => Len(not_chunks') = Len(not_chunks) + 1]_vars

\* C18: a handler that only runs build_query (a key released in an input
\* without a change of its keyword) changes #id_q and nothing else; what it
\* leaves in #id_q is fixed by the rows and the combinator, whatever #id_q
\* held before (empty when no row has a keyword), and running build_query
\* once more would write the same.
C18_OverwriteIdempotent ==
    [][(/\ query_chunks' = query_chunks
        /\ not_chunks' = not_chunks
        /\ (QueryKeyup \/ NotKeyup)) =>
           /\ id_operator' = id_operator
           /\ ~threw'
           /\ id_q' = build_query(query_chunks, not_chunks, id_operator)
           /\ (build_query(query_chunks, not_chunks, id_operator))' = id_q'
           /\ (Filled(query_chunks) = <<>> /\ Filled(not_chunks) = <<>>) => id_q' = ""]_vars

\* C18 witness: after the combinator was changed to OR, build_query has
\* replaced the query written under AND.
C18_Witness ==
    /\ id_operator = "OR"
    /\ Len(Filled(query_chunks)) >= 2
    /\ Filled(not_chunks) = <<>>
    /\ not_chunks # <<>>
    /\ id_q = build_query(query_chunks, not_chunks, id_operator)
    /\ id_q # build_query(query_chunks, not_chunks, "AND")

====
